---------------------------- MODULE Spec2Model ----------------------------
(***************************************************************************)
(* pymarsys: the authenticated transport layer of the Emarsys client.      *)
(*                                                                         *)
(* The model covers the five call paths of the repository                  *)
(*   SyncConnection.make_call, AsyncConnection.make_call                   *)
(*                                         (pymarsys/connections.py)       *)
(*   Emarsys.__make_sync_call, Emarsys.__make_async_call                   *)
(*                                         (pymarsys/emarsys.py)           *)
(*   SyncEmarsys.make_call                 (pymarsys/sync/sync_emarsys.py) *)
(* the WSSE authenticator they share, and the remote service as the        *)
(* environment that answers a dispatched request with a transport status   *)
(* and a decoded JSON body.                                                *)
(*                                                                         *)
(* Spec      one caller, every input of make_call, on every call path      *)
(* AuthSpec  the authenticator called directly                             *)
(* ConcSpec  two coroutines of make_call on one async transport            *)
(* CtorSpec  the constructors of the endpoint classes and of the clients   *)
(* WrapSpec  a caller's program that uses a resource wrapper method        *)
(*                                                                         *)
(* Python strings are sequences of one-character strings, so that          *)
(* formatting, hex and base64 encoding and os.path.join are computed       *)
(* character by character. Python dicts are functions on their key set;    *)
(* where a dict is serialised, its items go in the order of FieldOrder.    *)
(***************************************************************************)
EXTENDS Integers, Sequences, FiniteSets, TLC

VARIABLES
    transport,  \* the transport instance: kind, username, secret, uri
    clock,      \* the UTC wall clock read by datetime.datetime.utcnow()
    calls,      \* per caller task: its make_call invocation in progress or just completed
    network,    \* the number of HTTP requests handed to requests / aiohttp so far
    derived,    \* the number of derivations of authentication variables so far
    sessions,   \* the number of aiohttp ClientSession objects currently open
    issued,     \* the number of make_call invocations started so far
    authvars,   \* the result of the last direct build_authentication_variables() call
    wire,       \* per connection in use: the request sent on it and the answer, if any
    constructed, \* the outcome of the constructor call of an endpoint or client class
    wrapper     \* the call of a resource wrapper method: its arguments and its progress

vars ==
    <<transport, clock, calls, network, derived, sessions, issued, authvars, wire,
      constructed, wrapper>>

---------------------------------------------------------------------------
(* Bounds of the model.                                                    *)

\* make_call invocations per behaviour
MaxCalls == 2
\* seconds the clock advances per behaviour
MaxTicks == 2
\* direct derivations per behaviour of AuthSpec
MaxDerivations == 2

---------------------------------------------------------------------------
(* Strings.                                                                *)

\* printable ASCII, code points 32..126, in order (the grave accent, code
\* point 96, cannot be written in a TLA+ string and is spelled out)
Ascii ==
    <<" ", "!", "\"", "#", "$", "%", "&", "'", "(", ")", "*", "+", ",", "-", ".", "/",
      "0", "1", "2", "3", "4", "5", "6", "7", "8", "9", ":", ";", "<", "=", ">", "?",
      "@", "A", "B", "C", "D", "E", "F", "G", "H", "I", "J", "K", "L", "M", "N", "O",
      "P", "Q", "R", "S", "T", "U", "V", "W", "X", "Y", "Z", "[", "\\", "]", "^", "_",
      "GRAVE", "a", "b", "c", "d", "e", "f", "g", "h", "i", "j", "k", "l", "m", "n", "o",
      "p", "q", "r", "s", "t", "u", "v", "w", "x", "y", "z", "{", "|", "}", "~">>

\* str.encode of one ASCII character: its code point
Ord(c) == 31 + (CHOOSE i \in 1..Len(Ascii) : Ascii[i] = c)

\* str.encode(s): the UTF-8 bytes of an ASCII string
str_encode(s) == [i \in 1..Len(s) |-> Ord(s[i])]

\* the positions of character c in s
Positions(s, c) == { i \in 1..Len(s) : s[i] = c }

HexDigits == <<"0", "1", "2", "3", "4", "5", "6", "7", "8", "9", "a", "b", "c", "d", "e", "f">>

IsHex(s) == \A i \in 1..Len(s) : \E d \in 1..16 : HexDigits[d] = s[i]

DecDigits == <<"0", "1", "2", "3", "4", "5", "6", "7", "8", "9">>

IsDec(s) == \A i \in 1..Len(s) : \E d \in 1..10 : DecDigits[d] = s[i]

\* the decimal digits of n >= 0, without padding
RECURSIVE Dec(_)
Dec(n) == IF n < 10 THEN <<DecDigits[n + 1]>> ELSE Dec(n \div 10) \o <<DecDigits[(n % 10) + 1]>>

\* strftime's two-digit fields %m %d %H %M %S: zero-padded to width 2
Pad2(n) == IF n < 10 THEN <<"0">> \o Dec(n) ELSE Dec(n)

\* bytes.hex(): two lowercase hex digits per byte
RECURSIVE hex(_)
hex(bytes) ==
    IF bytes = <<>> THEN <<>>
    ELSE <<HexDigits[(Head(bytes) \div 16) + 1], HexDigits[(Head(bytes) % 16) + 1]>>
         \o hex(Tail(bytes))

---------------------------------------------------------------------------
(* uuid.uuid4().hex                                                        *)

\* the 16 bytes os.urandom hands to uuid4: three of the 2^128 draws
RandomBytes ==
    { [i \in 1..16 |-> 0],
      [i \in 1..16 |-> 255],
      [i \in 1..16 |-> ((i * 37) + 11) % 256] }

\* uuid.UUID(bytes=..., version=4): the version nibble is set to 4 and the
\* variant bits to 10; every other bit is the random draw
uuid4(rnd) ==
    [i \in 1..16 |->
        IF i = 7 THEN 64 + (rnd[i] % 16)
        ELSE IF i = 9 THEN 128 + (rnd[i] % 64)
        ELSE rnd[i]]

\* UUID.hex: '%032x' % self.int
uuid4_hex(rnd) == hex(uuid4(rnd))

---------------------------------------------------------------------------
(* datetime.datetime.utcnow().strftime('%Y-%m-%dT%H:%M:%S+00:00')          *)

IsLeap(y) == (y % 4 = 0 /\ y % 100 # 0) \/ y % 400 = 0

DaysIn(y, m) ==
    IF m = 2 THEN (IF IsLeap(y) THEN 29 ELSE 28)
    ELSE IF m \in {4, 6, 9, 11} THEN 30 ELSE 31

\* datetime.MAXYEAR
MAXYEAR == 9999

\* the instant one second after t
NextSecond(t) ==
    IF t.second < 59 THEN [t EXCEPT !.second = @ + 1]
    ELSE IF t.minute < 59 THEN [t EXCEPT !.second = 0, !.minute = @ + 1]
    ELSE IF t.hour < 23 THEN [t EXCEPT !.second = 0, !.minute = 0, !.hour = @ + 1]
    ELSE IF t.day < DaysIn(t.year, t.month)
         THEN [t EXCEPT !.second = 0, !.minute = 0, !.hour = 0, !.day = @ + 1]
    ELSE IF t.month < 12
         THEN [t EXCEPT !.second = 0, !.minute = 0, !.hour = 0, !.day = 1, !.month = @ + 1]
    ELSE [year |-> t.year + 1, month |-> 1, day |-> 1, hour |-> 0, minute |-> 0, second |-> 0]

Instant(y, mo, d, h, mi, s) ==
    [year |-> y, month |-> mo, day |-> d, hour |-> h, minute |-> mi, second |-> s]

\* the instant the transport is constructed at (the session of the model)
StartInstant == Instant(2026, 11, 3, 17, 13, 58)

\* instants the authenticator is exercised at: one-digit fields, the end of a
\* minute, of a leap day and of a year, and the last second before the last
\* second datetime can hold
AuthInstants ==
    { Instant(2016, 1, 2, 3, 4, 5),
      StartInstant,
      Instant(2024, 2, 29, 23, 59, 59),
      Instant(2027, 12, 31, 23, 59, 59),
      Instant(MAXYEAR, 12, 31, 23, 59, 58) }

\* strftime with the format '%Y-%m-%dT%H:%M:%S': the UTC offset left out
strftime_no_offset(t) ==
    Dec(t.year) \o <<"-">> \o Pad2(t.month) \o <<"-">> \o Pad2(t.day) \o <<"T">>
    \o Pad2(t.hour) \o <<":">> \o Pad2(t.minute) \o <<":">> \o Pad2(t.second)

\* strftime('%Y-%m-%dT%H:%M:%S+00:00'); glibc's %Y does not pad
strftime(t) ==
    Dec(t.year) \o <<"-">> \o Pad2(t.month) \o <<"-">> \o Pad2(t.day) \o <<"T">>
    \o Pad2(t.hour) \o <<":">> \o Pad2(t.minute) \o <<":">> \o Pad2(t.second)
    \o <<"+", "0", "0", ":", "0", "0">>

---------------------------------------------------------------------------
(* hashlib.sha1(...).hexdigest() and base64.b64encode                      *)

\* the size of a SHA-1 digest in bytes
SHA1_DIGEST_SIZE == 20

RECURSIVE WeightedSum(_, _, _)
WeightedSum(bytes, j, i) ==
    IF j > Len(bytes) THEN 0
    ELSE ((bytes[j] * (((i * j) % 251) + 1)) + WeightedSum(bytes, j + 1, i)) % 65521

\* hashlib.sha1(data).digest(): SHA-1's compression function is replaced by a
\* position-weighted checksum; what is kept is that the digest is a function
\* of every byte of the message and is SHA1_DIGEST_SIZE bytes long
sha1_digest(data) ==
    [i \in 1..SHA1_DIGEST_SIZE |-> (WeightedSum(data, 1, i) + (7 * i)) % 256]

\* hashlib.sha1(data).hexdigest()
sha1_hexdigest(data) == hex(sha1_digest(data))

Base64Alphabet ==
    <<"A", "B", "C", "D", "E", "F", "G", "H", "I", "J", "K", "L", "M", "N", "O", "P",
      "Q", "R", "S", "T", "U", "V", "W", "X", "Y", "Z", "a", "b", "c", "d", "e", "f",
      "g", "h", "i", "j", "k", "l", "m", "n", "o", "p", "q", "r", "s", "t", "u", "v",
      "w", "x", "y", "z", "0", "1", "2", "3", "4", "5", "6", "7", "8", "9", "+", "/">>

\* base64.b64encode followed by bytes.decode: every 3 bytes give 4 characters,
\* a last group of 1 or 2 bytes is padded with "="
RECURSIVE b64encode(_)
b64encode(bytes) ==
    IF bytes = <<>> THEN <<>>
    ELSE IF Len(bytes) = 1 THEN
        <<Base64Alphabet[(bytes[1] \div 4) + 1],
          Base64Alphabet[((bytes[1] % 4) * 16) + 1], "=", "=">>
    ELSE IF Len(bytes) = 2 THEN
        <<Base64Alphabet[(bytes[1] \div 4) + 1],
          Base64Alphabet[((bytes[1] % 4) * 16) + (bytes[2] \div 16) + 1],
          Base64Alphabet[((bytes[2] % 16) * 4) + 1], "=">>
    ELSE
        <<Base64Alphabet[(bytes[1] \div 4) + 1],
          Base64Alphabet[((bytes[1] % 4) * 16) + (bytes[2] \div 16) + 1],
          Base64Alphabet[((bytes[2] % 16) * 4) + (bytes[3] \div 64) + 1],
          Base64Alphabet[(bytes[3] % 64) + 1]>>
        \o b64encode(SubSeq(bytes, 4, Len(bytes)))

IsBase64(s) ==
    \A i \in 1..Len(s) : s[i] = "=" \/ \E d \in 1..64 : Base64Alphabet[d] = s[i]

---------------------------------------------------------------------------
(* The authenticator.                                                      *)

\* BaseConnection.build_authentication_variables, and its copies
\* Emarsys.__build_authentication_variables and
\* SyncEmarsys.__get_authentication_variables: rnd is the random draw of
\* uuid4 and now the clock reading of utcnow
build_authentication_variables(secret, rnd, now) ==
    LET nonce == uuid4_hex(rnd)
        created == strftime(now)
        sha1 == sha1_hexdigest(str_encode(nonce \o created \o secret))
        password_digest == b64encode(str_encode(sha1))
    IN  [nonce |-> nonce, created |-> created, password_digest |-> password_digest]

\* 'test_username'
TEST_USERNAME == <<"t", "e", "s", "t", "_", "u", "s", "e", "r", "n", "a", "m", "e">>

\* 'test_secret'
TEST_SECRET == <<"t", "e", "s", "t", "_", "s", "e", "c", "r", "e", "t">>

\* secrets the authenticator is exercised with: empty, one character, the
\* tests' secret, and one with punctuation
AuthSecrets ==
    { <<>>, <<"s">>, TEST_SECRET, <<"p", "@", "s", "s", " ", "w", "0", "r", "d", "!">> }

RECURSIVE Later(_, _)
\* the instant k seconds after t
Later(t, k) == IF k = 0 THEN t ELSE Later(NextSecond(t), k - 1)

\* every clock reading of the model
Instants == { Later(t, k) : t \in AuthInstants, k \in 0..MaxTicks }

\* self.build_authentication_variables() as the call paths invoke it,
\* tabulated over the secrets, draws and clock readings of the model so that
\* each derivation is computed once
AuthTable ==
    [secret \in AuthSecrets, rnd \in RandomBytes, now \in Instants |->
        build_authentication_variables(secret, rnd, now)]

---------------------------------------------------------------------------
(* Python values.                                                          *)

\* None
None == [none |-> TRUE]

\* {}
EmptyDict == [k \in {} |-> None]

\* Python's truth test `not x` on an optional dict: None and {} are falsy
Falsy(x) == x = None \/ x = EmptyDict

\* {**a, **b}: the keys of both, b's value where both have the key
DictMerge(a, b) == [k \in (DOMAIN a) \cup (DOMAIN b) |-> IF k \in DOMAIN b THEN b[k] ELSE a[k]]

---------------------------------------------------------------------------
(* Program constants.                                                      *)

VALID_HTTP_METHODS == {"GET", "POST", "PUT", "DELETE"}

\* 'https://api.emarsys.net/'
EMARSYS_URI ==
    <<"h", "t", "t", "p", "s", ":", "/", "/", "a", "p", "i", ".", "e", "m", "a", "r", "s",
      "y", "s", ".", "n", "e", "t", "/">>

\* 'application/json'
APPLICATION_JSON ==
    <<"a", "p", "p", "l", "i", "c", "a", "t", "i", "o", "n", "/", "j", "s", "o", "n">>

---------------------------------------------------------------------------
(* The inputs of the model.                                                *)

\* a base URI without the trailing slash: 'https://api.emarsys.net'
URI_NO_SLASH == SubSeq(EMARSYS_URI, 1, Len(EMARSYS_URI) - 1)

Uris == {EMARSYS_URI, URI_NO_SLASH}

\* the five call paths
Kinds == {"SyncConnection", "AsyncConnection", "Emarsys", "EmarsysAsync", "SyncEmarsys"}

\* the methods a caller passes: the four valid ones and one that is not
Methods == VALID_HTTP_METHODS \cup {"PATCH"}

\* 'api/v2/contact/'
CONTACT_ENDPOINT ==
    <<"a", "p", "i", "/", "v", "2", "/", "c", "o", "n", "t", "a", "c", "t", "/">>

\* 'api/v2/settings'
SETTINGS_ENDPOINT ==
    <<"a", "p", "i", "/", "v", "2", "/", "s", "e", "t", "t", "i", "n", "g", "s">>

\* the paths a caller passes: the two above, and one with a leading slash
Endpoints == {CONTACT_ENDPOINT, SETTINGS_ENDPOINT, <<"/">> \o CONTACT_ENDPOINT}

\* a forged X-WSSE value and a non-JSON content type, as a caller may pass them
FORGED == <<"f", "o", "r", "g", "e", "d">>

TEXT_XML == <<"t", "e", "x", "t", "/", "x", "m", "l">>

\* the header mappings a caller passes: none, one that collides with neither
\* default, one that collides with Content-Type, one that collides with X-WSSE
CallerHeaders ==
    { None,
      [k \in {"Accept"} |-> APPLICATION_JSON],
      [k \in {"Content-Type"} |-> TEXT_XML],
      [k \in {"X-WSSE"} |-> FORGED] }

\* 'a@example.com'
EMAIL ==
    <<"a", "@", "e", "x", "a", "m", "p", "l", "e", ".", "c", "o", "m">>

\* the payloads a caller passes: none, and {'3': 'a@example.com'}
Payloads == { None, [k \in {"3"} |-> EMAIL] }

\* the query parameters a caller passes: none, and {'return': 3, 'limit': 2}
\* (Contact.query(3, limit=2)), the values as str() renders them
Params == { None, [k \in {"return", "limit"} |-> IF k = "return" THEN <<"3">> ELSE <<"2">>] }

\* the random draws uuid4 makes during calls: two of RandomBytes
CallDraws == { rnd \in RandomBytes : rnd[1] # 255 }

\* the transport statuses the remote service answers with
Statuses == {200, 201, 404, 500}

\* {"data": {"id": 123}, "replyCode": 0, "replyText": "OK"}
OK_BODY == [data |-> [id |-> 123], replyCode |-> 0, replyText |-> "OK"]

\* {"data": {"id": 0}, "replyCode": 1003, "replyText": "Duplicate contact"}
DUPLICATE_BODY == [data |-> [id |-> 0], replyCode |-> 1003, replyText |-> "Duplicate contact"]

\* a decoded body without replyCode, as a gateway in front of the service sends
NO_REPLY_CODE_BODY == [message |-> "Bad Gateway"]

Bodies == {OK_BODY, DUPLICATE_BODY, NO_REPLY_CODE_BODY}

---------------------------------------------------------------------------
(* Serialisation of dicts.                                                 *)

\* the keys of the serialised dicts, in the order the callers insert them
FieldOrder ==
    <<"3", "key_id", "source_id", "return", "limit", "offset", "excludeempty", "1",
      "create_if_not_exists">>

\* the characters of a key
KeyText(k) ==
    CASE k = "3" -> <<"3">>
      [] k = "return" -> <<"r", "e", "t", "u", "r", "n">>
      [] k = "limit" -> <<"l", "i", "m", "i", "t">>
      [] k = "key_id" -> <<"k", "e", "y", "_", "i", "d">>
      [] k = "source_id" -> <<"s", "o", "u", "r", "c", "e", "_", "i", "d">>
      [] k = "offset" -> <<"o", "f", "f", "s", "e", "t">>
      [] k = "excludeempty" -> <<"e", "x", "c", "l", "u", "d", "e", "e", "m", "p", "t", "y">>
      [] k = "1" -> <<"1">>
      [] k = "create_if_not_exists" ->
            <<"c", "r", "e", "a", "t", "e", "_", "i", "f", "_", "n", "o", "t", "_", "e", "x",
              "i", "s", "t", "s">>

\* list(d.keys())
RECURSIVE KeysFrom(_, _)
KeysFrom(d, i) ==
    IF i > Len(FieldOrder) THEN <<>>
    ELSE IF FieldOrder[i] \in DOMAIN d THEN <<FieldOrder[i]>> \o KeysFrom(d, i + 1)
    ELSE KeysFrom(d, i + 1)

\* sep.join(parts)
RECURSIVE Join(_, _)
Join(parts, sep) ==
    IF parts = <<>> THEN <<>>
    ELSE IF Len(parts) = 1 THEN parts[1]
    ELSE parts[1] \o sep \o Join(Tail(parts), sep)

\* json.dumps of a str without characters that need an escape
json_str(chars) == <<"\"">> \o chars \o <<"\"">>

\* json.dumps(obj) for None and for a dict of str to str, with the default
\* separators ', ' and ': '
json_dumps(obj) ==
    IF obj = None THEN <<"n", "u", "l", "l">>
    ELSE LET keys == KeysFrom(obj, 1)
             item(i) == json_str(KeyText(keys[i])) \o <<":", " ">> \o json_str(obj[keys[i]])
         IN  <<"{">> \o Join([i \in 1..Len(keys) |-> item(i)], <<",", " ">>) \o <<"}">>

\* urllib.parse.urlencode(params) for keys and values of unreserved characters
urlencode(params) ==
    LET keys == KeysFrom(params, 1)
        item(i) == KeyText(keys[i]) \o <<"=">> \o params[keys[i]]
    IN  Join([i \in 1..Len(keys) |-> item(i)], <<"&">>)

---------------------------------------------------------------------------
(* Request construction.                                                   *)

\* a join that always puts a separator between base and path
os_path_join_naive(a, b) == a \o <<"/">> \o b

\* os.path.join(a, b) of posixpath: b alone when b starts with the separator,
\* else a and b with one separator between them unless a already ends in one
os_path_join(a, b) ==
    IF b # <<>> /\ b[1] = "/" THEN b
    ELSE IF a = <<>> \/ a[Len(a)] = "/" THEN a \o b
    ELSE a \o <<"/">> \o b

\* 'PREFIX{}"'.format(value)
Quoted(prefix, value) == prefix \o value \o <<"\"">>

\* an X-WSSE value whose fields are joined with ', ' and whose digest field is
\* named Digest
http_header_renamed(username, auth) ==
    Quoted(<<"U", "s", "e", "r", "n", "a", "m", "e", "T", "o", "k", "e", "n", " ",
             "U", "s", "e", "r", "n", "a", "m", "e", "=", "\"">>, username)
    \o <<",", " ">>
    \o Quoted(<<"D", "i", "g", "e", "s", "t", "=", "\"">>, auth.password_digest)
    \o <<",", " ">>
    \o Quoted(<<"N", "o", "n", "c", "e", "=", "\"">>, auth.nonce)
    \o <<",", " ">>
    \o Quoted(<<"C", "r", "e", "a", "t", "e", "d", "=", "\"">>, auth.created)

\* the X-WSSE value: ','.join of the four formatted fields
http_header(username, auth) ==
    Quoted(<<"U", "s", "e", "r", "n", "a", "m", "e", "T", "o", "k", "e", "n", " ",
             "U", "s", "e", "r", "n", "a", "m", "e", "=", "\"">>, username)
    \o <<",">>
    \o Quoted(<<"P", "a", "s", "s", "w", "o", "r", "d", "D", "i", "g", "e", "s", "t",
                "=", "\"">>, auth.password_digest)
    \o <<",">>
    \o Quoted(<<"N", "o", "n", "c", "e", "=", "\"">>, auth.nonce)
    \o <<",">>
    \o Quoted(<<"C", "r", "e", "a", "t", "e", "d", "=", "\"">>, auth.created)

\* build_headers with a second derivation for the nonce: the digest comes
\* from one derivation and the nonce in the header from another
build_headers_mixed(self, other_headers, rnd, now) ==
    LET others == IF Falsy(other_headers) THEN EmptyDict ELSE other_headers
        auth == AuthTable[self.secret, rnd, now]
        again == AuthTable[self.secret, CHOOSE r \in RandomBytes : r # rnd, now]
        mixed == [nonce |-> again.nonce, created |-> auth.created,
                  password_digest |-> auth.password_digest]
    IN  DictMerge([k \in {"X-WSSE", "Content-Type"} |->
                      IF k = "X-WSSE" THEN http_header(self.username, mixed)
                      ELSE APPLICATION_JSON],
                  others)

\* build_headers with the merge turned round: {**other_headers, 'X-WSSE': ...,
\* 'Content-Type': ...}, so that the defaults win over the caller
build_headers_defaults_win(self, other_headers, rnd, now) ==
    LET others == IF Falsy(other_headers) THEN EmptyDict ELSE other_headers
        auth == AuthTable[self.secret, rnd, now]
    IN  DictMerge(others,
                  [k \in {"X-WSSE", "Content-Type"} |->
                      IF k = "X-WSSE" THEN http_header(self.username, auth)
                      ELSE APPLICATION_JSON])

\* build_headers with the authentication variables derived once, when the
\* transport was constructed, and kept for every later request
build_headers_cached(self, other_headers, rnd, now) ==
    LET others == IF Falsy(other_headers) THEN EmptyDict ELSE other_headers
        auth == AuthTable[self.secret, [i \in 1..16 |-> 0], StartInstant]
    IN  DictMerge([k \in {"X-WSSE", "Content-Type"} |->
                      IF k = "X-WSSE" THEN http_header(self.username, auth)
                      ELSE APPLICATION_JSON],
                  others)

\* BaseConnection.build_headers and Emarsys.__build_headers
build_headers(self, other_headers, rnd, now) ==
    LET others == IF Falsy(other_headers) THEN EmptyDict ELSE other_headers
        auth == AuthTable[self.secret, rnd, now]
    IN  DictMerge([k \in {"X-WSSE", "Content-Type"} |->
                      IF k = "X-WSSE" THEN http_header(self.username, auth)
                      ELSE APPLICATION_JSON],
                  others)

\* the headers SyncEmarsys.make_call builds inline: no Content-Type default
SyncEmarsys_headers(self, headers, rnd, now) ==
    LET others == IF Falsy(headers) THEN EmptyDict ELSE headers
        auth == AuthTable[self.secret, rnd, now]
    IN  DictMerge([k \in {"X-WSSE"} |-> http_header(self.username, auth)], others)

\* requests.request(method, url, headers=headers, json=payload, params=params):
\* with json given and no data, requests sends json.dumps(json) as the body and
\* declares Content-Type: application/json unless the headers already hold a
\* Content-Type; it appends the encoded params to the URL as its query string
requests_request(method, url, headers, json, params) ==
    [method |-> method,
     url |-> IF Falsy(params) THEN url
             ELSE url \o (IF Positions(url, "?") = {} THEN <<"?">> ELSE <<"&">>)
                      \o urlencode(params),
     headers |-> IF "Content-Type" \in DOMAIN headers THEN headers
                 ELSE DictMerge(headers, [k \in {"Content-Type"} |-> APPLICATION_JSON]),
     body |-> json_dumps(json)]

\* session.request(method, url, headers=headers, data=json.dumps(payload))
session_request(method, url, headers, payload) ==
    [method |-> method, url |-> url, headers |-> headers, body |-> json_dumps(payload)]

IsAsync(kind) == kind \in {"AsyncConnection", "EmarsysAsync"}

\* the call paths that start with `if method not in VALID_HTTP_METHODS`
ValidatesMethod(kind) == kind \in {"Emarsys", "EmarsysAsync", "SyncEmarsys"}

\* the call paths whose make_call has a `params` parameter: SyncEmarsys alone
AcceptsParams(kind) == kind = "SyncEmarsys"

\* BuildRequest without the `if not payload: payload = {}` default
BuildRequest_no_default(self, method, endpoint, headers, payload, params, rnd, now) ==
    LET url == os_path_join(self.uri, endpoint)
    IN  IF self.kind = "SyncEmarsys"
        THEN requests_request(method, url, SyncEmarsys_headers(self, headers, rnd, now),
                              payload, params)
        ELSE IF IsAsync(self.kind)
        THEN session_request(method, url, build_headers(self, headers, rnd, now), payload)
        ELSE requests_request(method, url, build_headers(self, headers, rnd, now),
                              payload, None)

\* the request make_call hands to the HTTP library
BuildRequest(self, method, endpoint, headers, payload, params, rnd, now) ==
    LET json == IF Falsy(payload) THEN EmptyDict ELSE payload
        url == os_path_join(self.uri, endpoint)
    IN  IF self.kind = "SyncEmarsys"
        THEN requests_request(method, url, SyncEmarsys_headers(self, headers, rnd, now),
                              json, params)
        ELSE IF IsAsync(self.kind)
        THEN session_request(method, url, build_headers(self, headers, rnd, now), json)
        ELSE requests_request(method, url, build_headers(self, headers, rnd, now), json, None)

---------------------------------------------------------------------------
(* Response classification.                                                *)

\* requests' Response.ok: raise_for_status() raises for 400 <= status < 600
response_ok(status) == ~(400 <= status /\ status < 600)

Return(value) == [kind |-> "return", value |-> value]

Raise(exception, value) == [kind |-> exception, value |-> value]

\* SyncConnection.make_call, lines 109-115
SyncConnection_classify(request, response) ==
    IF response_ok(response.status) THEN Return(response.body)
    ELSE Raise("ApiCallError", response.body)

\* Emarsys.__make_sync_call, lines 131-139
Emarsys_classify(request, response) ==
    IF response_ok(response.status) THEN Return(response.body)
    ELSE Raise("ApiCallError", [emarsys_response |-> response.body])

\* SyncEmarsys.make_call, lines 185-194
SyncEmarsys_classify(request, response) ==
    IF response_ok(response.status) THEN Return(response.body)
    ELSE Raise("ApiCallError",
               [emarsys_response |-> response.body, original_request |-> request])

\* the async classification returning response['data'] instead of the response
Async_classify_data(request, response) ==
    IF "replyCode" \notin DOMAIN response.body THEN Raise("KeyError", None)
    ELSE IF response.body.replyCode = 0 THEN Return(response.body.data)
    ELSE Raise("ApiCallError", response.body)

\* AsyncConnection.make_call and Emarsys.__make_async_call: response['replyCode']
\* raises KeyError when the decoded body has no such key
Async_classify(request, response) ==
    IF "replyCode" \notin DOMAIN response.body THEN Raise("KeyError", None)
    ELSE IF response.body.replyCode = 0 THEN Return(response.body)
    ELSE Raise("ApiCallError", response.body)

Classify(kind, request, response) ==
    IF IsAsync(kind) THEN Async_classify(request, response)
    ELSE IF kind = "SyncConnection" THEN SyncConnection_classify(request, response)
    ELSE IF kind = "Emarsys" THEN Emarsys_classify(request, response)
    ELSE SyncEmarsys_classify(request, response)

---------------------------------------------------------------------------
(* The state machine.                                                      *)

\* no make_call in progress for the task
IdleCall == [pc |-> "idle"]

\* no connection in use
NoWire == [s \in {} |-> None]

\* the connection s is opened and the request sent on it
Open(w, s, request) ==
    [x \in (DOMAIN w) \cup {s} |->
        IF x = s THEN [request |-> request, response |-> None] ELSE w[x]]

\* the connection s is closed
Close(w, s) == [x \in (DOMAIN w) \ {s} |-> w[x]]

\* no constructor has been called
NotConstructed == [pc |-> "none"]

\* no wrapper method has been called
NoWrapper == [pc |-> "none"]

\* the single caller task of Spec
Tasks == {"t1"}

Init ==
    /\ transport \in [kind : Kinds, username : {TEST_USERNAME}, secret : {TEST_SECRET},
                      uri : Uris]
    /\ clock = [now |-> StartInstant, ticks |-> 0]
    /\ calls = [t \in Tasks |-> IdleCall]
    /\ network = 0
    /\ derived = 0
    /\ sessions = 0
    /\ issued = 0
    /\ authvars = None
    /\ wire = NoWire
    /\ constructed = NotConstructed
    /\ wrapper = NoWrapper

\* make_call up to the point where it waits for the remote service: the
\* binding of the arguments (a `params` keyword is a TypeError where make_call
\* has no such parameter), the method check (where the call path has one), the
\* request construction and the dispatch; the async paths open their
\* ClientSession here
Dispatch(t, method, endpoint, headers, payload, params, rnd) ==
    /\ calls[t].pc = "idle"
    /\ issued < MaxCalls
    /\ issued' = issued + 1
    /\ IF params # None /\ ~AcceptsParams(transport.kind)
       THEN /\ calls' = [calls EXCEPT ![t] =
                   [pc |-> "done", method |-> method, payload |-> payload,
                    params |-> params, requests |-> 0,
                    outcome |-> Raise("TypeError", None)]]
            /\ UNCHANGED <<network, derived, sessions, wire>>
       ELSE IF ValidatesMethod(transport.kind) /\ method \notin VALID_HTTP_METHODS
       THEN /\ calls' = [calls EXCEPT ![t] =
                   [pc |-> "done", method |-> method, payload |-> payload,
                    params |-> params, requests |-> 0,
                    outcome |-> Raise("ValueError", None)]]
            /\ UNCHANGED <<network, derived, sessions, wire>>
       ELSE LET request == BuildRequest(transport, method, endpoint, headers, payload,
                                        params, rnd, clock.now)
            IN  /\ calls' = [calls EXCEPT ![t] =
                       [pc |-> "awaiting", method |-> method, endpoint |-> endpoint,
                        headers |-> headers, payload |-> payload, params |-> params,
                        rnd |-> rnd, now |-> clock.now, serial |-> derived + 1,
                        requests |-> 1, request |-> request]]
                /\ wire' = Open(wire, derived + 1, request)
                /\ network' = network + 1
                /\ derived' = derived + 1
                /\ sessions' = IF IsAsync(transport.kind) THEN sessions + 1 ELSE sessions
    /\ UNCHANGED <<transport, clock, authvars, constructed>>

\* make_call called by the caller's own code, not through a resource wrapper
Start(t, method, endpoint, headers, payload, params, rnd) ==
    /\ Dispatch(t, method, endpoint, headers, payload, params, rnd)
    /\ UNCHANGED wrapper

\* the call of task t once make_call has classified the answer
Completed(t, response) ==
    [pc |-> "done", method |-> calls[t].method, payload |-> calls[t].payload,
     params |-> calls[t].params, requests |-> calls[t].requests, response |-> response,
     outcome |-> Classify(transport.kind, calls[t].request, response)]

\* the call of task t once the network has failed under its request
Failed(t) ==
    [pc |-> "done", method |-> calls[t].method, payload |-> calls[t].payload,
     params |-> calls[t].params, requests |-> calls[t].requests,
     outcome |-> Raise("ConnectionError", None)]

\* a transport that keeps the last answer on the instance
Respond_remembering(t, status, body) ==
    /\ calls[t].pc = "awaiting"
    /\ wire[calls[t].serial].response = None
    /\ calls' = [calls EXCEPT ![t] = Completed(t, [status |-> status, body |-> body])]
    /\ wire' = Close(wire, calls[t].serial)
    /\ sessions' = IF IsAsync(transport.kind) THEN sessions - 1 ELSE sessions
    /\ transport' = [kind |-> transport.kind, username |-> transport.username,
                     secret |-> transport.secret, uri |-> transport.uri,
                     last_status |-> status]
    /\ UNCHANGED <<clock, network, derived, issued, authvars, constructed, wrapper>>

\* the remote service answers on the connection of the call and make_call
\* classifies the answer; the async paths leave their `async with` blocks, which
\* closes the ClientSession
Respond(t, status, body) ==
    /\ calls[t].pc = "awaiting"
    /\ wire[calls[t].serial].response = None
    /\ calls' = [calls EXCEPT ![t] = Completed(t, [status |-> status, body |-> body])]
    /\ wire' = Close(wire, calls[t].serial)
    /\ sessions' = IF IsAsync(transport.kind) THEN sessions - 1 ELSE sessions
    /\ UNCHANGED <<transport, clock, network, derived, issued, authvars, constructed, wrapper>>

\* a transport that sends the request again when the network fails under it
NetworkError_retry(t) ==
    /\ calls[t].pc = "awaiting"
    /\ calls[t].requests < 2
    /\ calls' = [calls EXCEPT ![t].requests = 2]
    /\ network' = network + 1
    /\ UNCHANGED <<transport, clock, derived, sessions, issued, authvars, wire, constructed, wrapper>>

\* a transport with one session for all its calls, which a network failure
\* under one call tears down for every call in flight
NetworkError_shared(t) ==
    /\ calls[t].pc = "awaiting"
    /\ calls' = [u \in DOMAIN calls |->
                    IF calls[u].pc = "awaiting" THEN Failed(u) ELSE calls[u]]
    /\ wire' = NoWire
    /\ sessions' = 0
    /\ UNCHANGED <<transport, clock, network, derived, issued, authvars, constructed, wrapper>>

\* the network fails under the request: the library's exception leaves
\* make_call unhandled, through the `async with` blocks on the async paths
NetworkError(t) ==
    /\ calls[t].pc = "awaiting"
    /\ calls' = [calls EXCEPT ![t] = Failed(t)]
    /\ wire' = Close(wire, calls[t].serial)
    /\ sessions' = IF IsAsync(transport.kind) THEN sessions - 1 ELSE sessions
    /\ UNCHANGED <<transport, clock, network, derived, issued, authvars, constructed, wrapper>>

\* the caller takes the outcome; the task can call again
Collect(t) ==
    /\ calls[t].pc = "done"
    /\ calls' = [calls EXCEPT ![t] = IdleCall]
    /\ UNCHANGED <<transport, clock, network, derived, sessions, issued, authvars, wire,
                   constructed, wrapper>>

\* a second passes
Tick ==
    /\ clock.ticks < MaxTicks
    /\ clock.now.year <= MAXYEAR
    /\ NextSecond(clock.now).year <= MAXYEAR
    /\ clock' = [now |-> NextSecond(clock.now), ticks |-> clock.ticks + 1]
    /\ UNCHANGED <<transport, calls, network, derived, sessions, issued, authvars, wire,
                   constructed, wrapper>>

Next ==
    \/ \E t \in DOMAIN calls, method \in Methods, endpoint \in Endpoints,
          headers \in CallerHeaders, payload \in Payloads, params \in Params,
          rnd \in CallDraws :
            Start(t, method, endpoint, headers, payload, params, rnd)
    \/ \E t \in DOMAIN calls, status \in Statuses, body \in Bodies : Respond(t, status, body)
    \/ \E t \in DOMAIN calls : NetworkError(t)
    \/ \E t \in DOMAIN calls : Collect(t)
    \/ Tick

Spec == Init /\ [][Next]_vars

---------------------------------------------------------------------------
(* The authenticator on its own: a caller derives authentication variables *)
(* directly, as the tests do.                                              *)

AuthInit ==
    /\ transport \in [kind : {"SyncConnection"}, username : {TEST_USERNAME},
                      secret : AuthSecrets, uri : {EMARSYS_URI}]
    /\ clock \in [now : AuthInstants, ticks : {0}]
    /\ calls = [t \in Tasks |-> IdleCall]
    /\ network = 0
    /\ derived = 0
    /\ sessions = 0
    /\ issued = 0
    /\ authvars = None
    /\ wire = NoWire
    /\ constructed = NotConstructed
    /\ wrapper = NoWrapper

\* connection.build_authentication_variables()
Derive(rnd) ==
    /\ derived < MaxDerivations
    /\ derived' = derived + 1
    /\ authvars' = build_authentication_variables(transport.secret, rnd, clock.now)
    /\ UNCHANGED <<transport, clock, calls, network, sessions, issued, wire, constructed, wrapper>>

AuthNext ==
    \/ \E rnd \in RandomBytes : Derive(rnd)
    \/ Tick

AuthSpec == AuthInit /\ [][AuthNext]_vars

---------------------------------------------------------------------------
(* Two tasks call make_call concurrently on one async transport. A         *)
(* coroutine is suspended at its awaits: the remote service answers on a   *)
(* connection in one step, the coroutine that owns the connection reads    *)
(* the answer in a later one.                                              *)

ConcTasks == {"t1", "t2"}

\* 'b@example.com'
OTHER_EMAIL == <<"b">> \o Tail(EMAIL)

\* the two tasks pass distinct bodies
PayloadOf(t) == [k \in {"3"} |-> IF t = "t1" THEN EMAIL ELSE OTHER_EMAIL]

ConcKinds == {"AsyncConnection", "EmarsysAsync"}

ConcStatuses == {200, 500}

\* the replyCode values of the service: OK, and a rejection
ConcCodes == {0, 1003}

\* the decoded body the service produces for a request: it names the contact
\* of the request body, as text
RemoteBody(request, code) ==
    [data |-> [contact |-> request.body],
     replyCode |-> code,
     replyText |-> IF code = 0 THEN "OK" ELSE "Duplicate contact"]

\* the remote service answers the request it received on connection s
Serve(s, status, code) ==
    /\ s \in DOMAIN wire
    /\ wire[s].response = None
    /\ wire' = [wire EXCEPT ![s].response =
                   [status |-> status, body |-> RemoteBody(wire[s].request, code)]]
    /\ UNCHANGED <<transport, clock, calls, network, derived, sessions, issued, authvars,
                   constructed, wrapper>>

\* a transport that keeps the latest answer in one slot shared by its calls
Receive_shared(t) ==
    LET served == { s \in DOMAIN wire : wire[s].response # None }
        last == CHOOSE s \in served : \A x \in served : x <= s
    IN  /\ calls[t].pc = "awaiting"
        /\ served # {}
        /\ calls' = [calls EXCEPT ![t] = Completed(t, wire[last].response)]
        /\ wire' = Close(wire, calls[t].serial)
        /\ sessions' = sessions - 1
        /\ UNCHANGED <<transport, clock, network, derived, issued, authvars, constructed, wrapper>>

\* a make_call that closes its session only on the path that returns: the
\* ApiCallError leaves with the session open
Receive_leaky(t) ==
    /\ calls[t].pc = "awaiting"
    /\ wire[calls[t].serial].response # None
    /\ calls' = [calls EXCEPT ![t] = Completed(t, wire[calls[t].serial].response)]
    /\ wire' = Close(wire, calls[t].serial)
    /\ sessions' = IF Completed(t, wire[calls[t].serial].response).outcome.kind = "return"
                   THEN sessions - 1 ELSE sessions
    /\ UNCHANGED <<transport, clock, network, derived, issued, authvars, constructed, wrapper>>

\* `await response.json()` of the coroutine of task t resumes: it reads the
\* answer from its own response object, classifies it and leaves the
\* `async with` blocks
Receive(t) ==
    /\ calls[t].pc = "awaiting"
    /\ wire[calls[t].serial].response # None
    /\ calls' = [calls EXCEPT ![t] = Completed(t, wire[calls[t].serial].response)]
    /\ wire' = Close(wire, calls[t].serial)
    /\ sessions' = sessions - 1
    /\ UNCHANGED <<transport, clock, network, derived, issued, authvars, constructed, wrapper>>

ConcInit ==
    /\ transport \in [kind : ConcKinds, username : {TEST_USERNAME}, secret : {TEST_SECRET},
                      uri : {EMARSYS_URI}]
    /\ clock = [now |-> StartInstant, ticks |-> 0]
    /\ calls = [t \in ConcTasks |-> IdleCall]
    /\ network = 0
    /\ derived = 0
    /\ sessions = 0
    /\ issued = 0
    /\ authvars = None
    /\ wire = NoWire
    /\ constructed = NotConstructed
    /\ wrapper = NoWrapper

ConcNext ==
    \/ \E t \in DOMAIN calls, rnd \in CallDraws :
            Start(t, "POST", CONTACT_ENDPOINT, None, PayloadOf(t), None, rnd)
    \/ \E s \in DOMAIN wire, status \in ConcStatuses, code \in ConcCodes :
            Serve(s, status, code)
    \/ \E t \in DOMAIN calls : Receive(t)
    \/ \E t \in DOMAIN calls : NetworkError(t)
    \/ \E t \in DOMAIN calls : Collect(t)
    \/ Tick

ConcSpec == ConcInit /\ [][ConcNext]_vars

---------------------------------------------------------------------------
(* Constructors: the endpoint classes, and the client classes, whose       *)
(* __init__ makes the settings call and then binds a Contact endpoint.     *)

\* 'api/v2/field/'
FIELD_ENDPOINT == <<"a", "p", "i", "/", "v", "2", "/", "f", "i", "e", "l", "d", "/">>

\* 'api/v2/contactlist/'
LIST_ENDPOINT ==
    <<"a", "p", "i", "/", "v", "2", "/", "c", "o", "n", "t", "a", "c", "t", "l", "i", "s",
      "t", "/">>

\* the integer 123, passed where a connection is expected
INT_123 == [kind |-> "int", value |-> 123]

\* the classes with a settings call in __init__
ClientKinds == {"Emarsys", "EmarsysAsync", "SyncEmarsys"}

\* isinstance(x, Emarsys)
IsEmarsys(x) == x.kind \in {"Emarsys", "EmarsysAsync"}

\* isinstance(x, SyncEmarsys)
IsSyncEmarsys(x) == x.kind = "SyncEmarsys"

\* pymarsys/base_endpoint.py: BaseEndpoint.__init__(self, sync_emarsys), called
\* with the positional arguments args after self
BaseEndpoint_init(args) ==
    IF Len(args) # 1
    THEN Raise("TypeError", "__init__() takes 2 positional arguments but 3 were given")
    ELSE IF ~IsEmarsys(args[1])
    THEN Raise("TypeError", "emarsys must be an Emarsys object.")
    ELSE Return([emarsys |-> args[1].kind])

\* pymarsys/sync/base_endpoint.py: BaseEndpoint.__init__(self, sync_emarsys)
SyncBaseEndpoint_init(args) ==
    IF Len(args) # 1
    THEN Raise("TypeError", "__init__() takes 2 positional arguments but 3 were given")
    ELSE IF ~IsSyncEmarsys(args[1])
    THEN Raise("TypeError", "sync_emarsys must be a SyncEmarsys object.")
    ELSE Return([sync_emarsys |-> args[1].kind])

\* Contact(connection): super().__init__(connection, endpoint)
Contact_init(connection) == BaseEndpoint_init(<<connection, CONTACT_ENDPOINT>>)

\* ContactField(connection)
ContactField_init(connection) == BaseEndpoint_init(<<connection, FIELD_ENDPOINT>>)

\* ContactList(connection)
ContactList_init(connection) == BaseEndpoint_init(<<connection, LIST_ENDPOINT>>)

\* pymarsys.sync.contact.Contact(sync_emarsys): super().__init__(sync_emarsys)
SyncContact_init(sync_emarsys) == SyncBaseEndpoint_init(<<sync_emarsys>>)

EndpointClasses == {"Contact", "ContactField", "ContactList", "sync.Contact"}

Endpoint_init(cls, argument) ==
    CASE cls = "Contact" -> Contact_init(argument)
      [] cls = "ContactField" -> ContactField_init(argument)
      [] cls = "ContactList" -> ContactList_init(argument)
      [] cls = "sync.Contact" -> SyncContact_init(argument)

\* a caller constructs an endpoint object with a connection, or with 123
ConstructEndpoint(cls, argument) ==
    /\ transport.kind \in {"SyncConnection", "AsyncConnection"}
    /\ constructed = NotConstructed
    /\ constructed' = [pc |-> "endpoint", cls |-> cls, argument |-> argument.kind,
                       outcome |-> Endpoint_init(cls, argument)]
    /\ UNCHANGED <<transport, clock, calls, network, derived, sessions, issued, authvars,
                   wire, wrapper>>

\* a constructor that catches the error of the settings call and returns a
\* client whose settings are None
Emarsys_init_end_lenient(t) ==
    /\ transport.kind \in ClientKinds
    /\ constructed = NotConstructed
    /\ calls[t].pc = "done"
    /\ transport' = [f \in (DOMAIN transport) \cup {"settings"} |->
                        IF f # "settings" THEN transport[f]
                        ELSE IF calls[t].outcome.kind = "return" THEN calls[t].outcome.value
                        ELSE None]
    /\ constructed' = [pc |-> "client", call |-> calls[t], outcome |-> Return(None)]
    /\ calls' = [calls EXCEPT ![t] = IdleCall]
    /\ UNCHANGED <<clock, network, derived, sessions, issued, authvars, wire, wrapper>>

\* Emarsys.__init__ / SyncEmarsys.__init__ from the end of the settings call
\* on: an exception of the call leaves __init__; else the body is assigned to
\* self.settings and self.contacts = Contact(self) is evaluated
Emarsys_init_end(t) ==
    /\ transport.kind \in ClientKinds
    /\ constructed = NotConstructed
    /\ calls[t].pc = "done"
    /\ LET contacts == IF transport.kind = "SyncEmarsys" THEN SyncContact_init(transport)
                       ELSE Contact_init(transport)
       IN  IF calls[t].outcome.kind # "return"
           THEN /\ constructed' = [pc |-> "client", call |-> calls[t],
                                   outcome |-> calls[t].outcome]
                /\ UNCHANGED transport
           ELSE /\ transport' = [f \in (DOMAIN transport) \cup {"settings"} |->
                                    IF f = "settings" THEN calls[t].outcome.value
                                    ELSE transport[f]]
                /\ constructed' = [pc |-> "client", call |-> calls[t],
                                   outcome |-> IF contacts.kind = "return" THEN Return(None)
                                               ELSE contacts]
    /\ calls' = [calls EXCEPT ![t] = IdleCall]
    /\ UNCHANGED <<clock, network, derived, sessions, issued, authvars, wire, wrapper>>

\* the object after the assignments of username, secret and uri: a connection
\* is complete then, a client goes on to its settings call
CtorInit ==
    /\ transport \in [kind : Kinds, username : {TEST_USERNAME}, secret : {TEST_SECRET},
                      uri : Uris]
    /\ clock = [now |-> StartInstant, ticks |-> 0]
    /\ calls = [t \in Tasks |-> IdleCall]
    /\ network = 0
    /\ derived = 0
    /\ sessions = 0
    /\ issued = 0
    /\ authvars = None
    /\ wire = NoWire
    /\ constructed = NotConstructed
    /\ wrapper = NoWrapper

CtorNext ==
    \/ \E t \in DOMAIN calls, rnd \in CallDraws :
            /\ transport.kind \in ClientKinds
            /\ issued = 0
            /\ Start(t, "GET", SETTINGS_ENDPOINT, None, None, None, rnd)
    \/ \E t \in DOMAIN calls, status \in Statuses, body \in Bodies : Respond(t, status, body)
    \/ \E t \in DOMAIN calls : NetworkError(t)
    \/ \E t \in DOMAIN calls : Emarsys_init_end(t)
    \/ \E cls \in EndpointClasses, argument \in {transport, INT_123} :
            ConstructEndpoint(cls, argument)
    \/ Tick

CtorSpec == CtorInit /\ [][CtorNext]_vars

---------------------------------------------------------------------------
(* The resource wrappers: a caller's program that takes an endpoint object *)
(* (or a client) and calls one of its methods.                             *)

\* an optional argument the caller supplied
Given(v) == [value |-> v]

\* d[k] = v
DictSet(d, k, v) == [x \in (DOMAIN d) \cup {k} |-> IF x = k THEN v ELSE d[x]]

\* dict(d): a new dict with the items of d
dict(d) == [k \in DOMAIN d |-> d[k]]

\* the wrapper reaches its make_call with these arguments; contact is the
\* caller's mapping as the body of the wrapper leaves it
Call(method, endpoint, payload, params, contact) ==
    [kind |-> "call", method |-> method, endpoint |-> endpoint, payload |-> payload,
     params |-> params, contact |-> contact]

\* self.<name> on an object without that attribute
AttributeError(name) == Raise("AttributeError", name)

\* '{}/{}/'.format(a, b)
Format2(a, b) == a \o <<"/">> \o b \o <<"/">>

\* '{}/{}/{}'.format(a, b, c)
Format3(a, b, c) == a \o <<"/">> \o b \o <<"/">> \o c

\* 'api/v2/contact'
SYNC_CONTACT_ENDPOINT ==
    <<"a", "p", "i", "/", "v", "2", "/", "c", "o", "n", "t", "a", "c", "t">>

\* 'api/v2/contact/delete'
SYNC_DELETE_ENDPOINT ==
    <<"a", "p", "i", "/", "v", "2", "/", "c", "o", "n", "t", "a", "c", "t", "/", "d", "e",
      "l", "e", "t", "e">>

\* the contact mapping with key_id and source_id entered where they are truthy
WithIds(payload, key_id, source_id) ==
    LET keyed == IF key_id # None THEN DictSet(payload, "key_id", key_id.value)
                 ELSE payload
    IN  IF source_id # None THEN DictSet(keyed, "source_id", source_id.value) ELSE keyed

\* pymarsys.contact.Contact.create: the payload is a copy of the mapping
Contact_create(self, contact, key_id, source_id) ==
    LET payload == WithIds(dict(contact), key_id, source_id)
    IN  IF "connection" \notin DOMAIN self THEN AttributeError("connection")
        ELSE IF "endpoint" \notin DOMAIN self THEN AttributeError("endpoint")
        ELSE Call("POST", self.endpoint, payload, None, contact)

\* pymarsys.contact.Contact.update
Contact_update(self, contact, key_id, source_id, upsert) ==
    LET params == IF upsert THEN DictSet(EmptyDict, "create_if_not_exists", <<"1">>)
                  ELSE EmptyDict
        payload == WithIds(dict(contact), key_id, source_id)
    IN  IF "connection" \notin DOMAIN self THEN AttributeError("connection")
        ELSE IF "endpoint" \notin DOMAIN self THEN AttributeError("endpoint")
        ELSE Call("PUT", self.endpoint, payload, params, contact)

\* pymarsys.contact.Contact.delete
Contact_delete(self, contact, key_id) ==
    IF "endpoint" \notin DOMAIN self THEN AttributeError("endpoint")
    ELSE IF "connection" \notin DOMAIN self THEN AttributeError("connection")
    ELSE Call("POST", Format2(self.endpoint, <<"d", "e", "l", "e", "t", "e">>),
              WithIds(dict(contact), key_id, None), None, contact)

\* pymarsys.contact.Contact.query: offset and excludeempty are entered under
\* the same `if limit is not None` as limit, with whatever value they have
Contact_query(self, field_id_to_return, query_tuple, limit, offset, exclude_empty) ==
    LET returned == [k \in {"return"} |-> field_id_to_return]
        limited == IF limit # None THEN DictSet(returned, "limit", limit.value)
                   ELSE returned
        offsetted == IF limit # None
                     THEN DictSet(limited, "offset",
                                  IF offset = None THEN None ELSE offset.value)
                     ELSE limited
        excluded == IF limit # None
                    THEN DictSet(offsetted, "excludeempty",
                                 IF exclude_empty = None THEN None ELSE exclude_empty.value)
                    ELSE offsetted
    IN  IF "endpoint" \notin DOMAIN self THEN AttributeError("endpoint")
        ELSE IF query_tuple # None /\ Len(query_tuple.value) > 2
        THEN Raise("ValueError", "query_tuple has more than 2 elements")
        ELSE IF "connection" \notin DOMAIN self THEN AttributeError("connection")
        ELSE Call("GET", Format2(self.endpoint, <<"q", "u", "e", "r", "y">>), None,
                  IF query_tuple # None
                  THEN DictSet(excluded, query_tuple.value[1].key, query_tuple.value[2].text)
                  ELSE excluded,
                  None)

\* pymarsys.contact_field.ContactField.list
ContactField_list(self, translate_id) ==
    IF "endpoint" \notin DOMAIN self THEN AttributeError("endpoint")
    ELSE IF "connection" \notin DOMAIN self THEN AttributeError("connection")
    ELSE Call("GET",
              IF translate_id # None
              THEN Format3(self.endpoint, <<"t", "r", "a", "n", "s", "l", "a", "t", "e">>,
                           translate_id.value)
              ELSE self.endpoint,
              None, None, None)

\* pymarsys.contact_field.ContactField.list_choice
ContactField_list_choice(self, list_id, translate_id) ==
    LET choice == Format3(self.endpoint, list_id, <<"c", "h", "o", "i", "c", "e">>)
    IN  IF "endpoint" \notin DOMAIN self THEN AttributeError("endpoint")
        ELSE IF "connection" \notin DOMAIN self THEN AttributeError("connection")
        ELSE Call("GET",
                  IF translate_id # None
                  THEN Format3(choice, <<"t", "r", "a", "n", "s", "l", "a", "t", "e">>,
                               translate_id.value)
                  ELSE choice,
                  None, None, None)

\* pymarsys.sync.contact.Contact.create_contact: `payload = contact` is the
\* caller's own dict, so the entries go into the caller's mapping
SyncContact_create_contact(self, contact, key_id, source_id) ==
    LET payload == WithIds(contact, key_id, source_id)
    IN  Call("POST", SYNC_CONTACT_ENDPOINT, payload, None, payload)

\* SyncEmarsys.create_contact: the same body on the client itself
SyncEmarsys_create_contact(self, contact, key_id, source_id) ==
    LET payload == WithIds(contact, key_id, source_id)
    IN  Call("POST", SYNC_CONTACT_ENDPOINT, payload, None, payload)

\* SyncEmarsys.delete_contact
SyncEmarsys_delete_contact(self, contact, key_id) ==
    LET payload == WithIds(contact, key_id, None)
    IN  Call("POST", SYNC_DELETE_ENDPOINT, payload, None, payload)

\* {'3': 'a@example.com'}, the mapping the caller holds
CONTACT == [k \in {"3"} |-> EMAIL]

\* key_id and source_id as the callers pass them: left out, or '3' and '7'
KeyIds == { None, Given(<<"3">>) }

SourceIds == { None, Given(<<"7">>) }

\* the field id 1 and the value 'Squirrel' as elements of a query_tuple: the
\* dict key an element makes, and its text
FIELD_1 == [key |-> "1", text |-> <<"1">>]

SQUIRREL == [key |-> "Squirrel", text |-> <<"S", "q", "u", "i", "r", "r", "e", "l">>]

\* no query_tuple, (1, 'Squirrel'), and a tuple of three elements
QueryTuples ==
    { None, Given(<<FIELD_1, SQUIRREL>>), Given(<<FIELD_1, SQUIRREL, SQUIRREL>>) }

\* limit=2, offset=1, exclude_empty='true', each supplied or not
Limits == { None, Given(<<"2">>) }

Offsets == { None, Given(<<"1">>) }

ExcludeEmpty == { None, Given(<<"t", "r", "u", "e">>) }

TranslateIds == { None, Given(<<"e", "n">>) }

ConnectionClasses == {"Contact", "ContactField", "ContactList"}

\* the wrapper methods of the model and the class of each
WrapperMethods ==
    { <<"Contact", "create">>, <<"Contact", "update">>, <<"Contact", "delete">>,
      <<"Contact", "query">>, <<"ContactField", "list">>, <<"ContactField", "list_choice">>,
      <<"sync.Contact", "create_contact">>, <<"SyncEmarsys", "create_contact">>,
      <<"SyncEmarsys", "delete_contact">> }

\* the arguments the callers pass to a wrapper method
ArgumentsOf(method) ==
    CASE method \in {"create", "create_contact"} ->
            [contact : {CONTACT}, key_id : KeyIds, source_id : SourceIds]
      [] method = "update" ->
            [contact : {CONTACT}, key_id : KeyIds, source_id : SourceIds, upsert : BOOLEAN]
      [] method \in {"delete", "delete_contact"} ->
            [contact : {CONTACT}, key_id : KeyIds]
      [] method = "query" ->
            [field_id_to_return : {<<"3">>}, query_tuple : QueryTuples, limit : Limits,
             offset : Offsets, exclude_empty : ExcludeEmpty]
      [] method = "list" -> [translate_id : TranslateIds]
      [] method = "list_choice" -> [list_id : {<<"9">>}, translate_id : TranslateIds]

\* the object the caller's program calls the method on: a pymarsys endpoint
\* class is constructed with the connection, client.contacts was constructed
\* by SyncEmarsys.__init__, and a client method is called on the client
Receiver(cls) ==
    CASE cls \in ConnectionClasses -> Endpoint_init(cls, transport)
      [] cls = "sync.Contact" -> SyncContact_init(transport)
      [] cls = "SyncEmarsys" -> Return(transport)

\* the body of the wrapper method up to its make_call
Body(cls, method, self, a) ==
    CASE cls = "Contact" /\ method = "create" ->
            Contact_create(self, a.contact, a.key_id, a.source_id)
      [] cls = "Contact" /\ method = "update" ->
            Contact_update(self, a.contact, a.key_id, a.source_id, a.upsert)
      [] cls = "Contact" /\ method = "delete" -> Contact_delete(self, a.contact, a.key_id)
      [] cls = "Contact" /\ method = "query" ->
            Contact_query(self, a.field_id_to_return, a.query_tuple, a.limit, a.offset,
                          a.exclude_empty)
      [] cls = "ContactField" /\ method = "list" -> ContactField_list(self, a.translate_id)
      [] cls = "ContactField" /\ method = "list_choice" ->
            ContactField_list_choice(self, a.list_id, a.translate_id)
      [] cls = "sync.Contact" /\ method = "create_contact" ->
            SyncContact_create_contact(self, a.contact, a.key_id, a.source_id)
      [] cls = "SyncEmarsys" /\ method = "create_contact" ->
            SyncEmarsys_create_contact(self, a.contact, a.key_id, a.source_id)
      [] cls = "SyncEmarsys" /\ method = "delete_contact" ->
            SyncEmarsys_delete_contact(self, a.contact, a.key_id)

\* the caller's program: take the object and call the method with the
\* arguments a. An exception of the constructor or of the body ends the
\* program; else the wrapper calls make_call, and what make_call returns or
\* raises is what the wrapper returns or raises
UseWrapper(t, cls, method, a, rnd) ==
    /\ wrapper = NoWrapper
    /\ (cls \in ConnectionClasses) = (transport.kind \in {"SyncConnection", "AsyncConnection"})
    /\ LET self == Receiver(cls)
           plan == IF self.kind # "return" THEN self ELSE Body(cls, method, self.value, a)
       IN  IF plan.kind = "call"
           THEN /\ Dispatch(t, plan.method, plan.endpoint, None, plan.payload, plan.params,
                            rnd)
                /\ wrapper' = [pc |-> "called", cls |-> cls, method |-> method, given |-> a,
                               contact |-> plan.contact]
           ELSE /\ wrapper' = [pc |-> "raised", cls |-> cls, method |-> method, given |-> a,
                               contact |-> IF "contact" \in DOMAIN a THEN a.contact ELSE None,
                               outcome |-> plan]
                /\ UNCHANGED <<transport, clock, calls, network, derived, sessions, issued,
                               authvars, wire, constructed>>

\* a connection as constructed, or a SyncEmarsys client whose constructor has
\* stored the settings
WrapInit ==
    /\ \/ transport \in [kind : {"SyncConnection", "AsyncConnection"},
                         username : {TEST_USERNAME}, secret : {TEST_SECRET},
                         uri : {EMARSYS_URI}]
       \/ transport = [kind |-> "SyncEmarsys", username |-> TEST_USERNAME,
                       secret |-> TEST_SECRET, uri |-> EMARSYS_URI, settings |-> OK_BODY]
    /\ clock = [now |-> StartInstant, ticks |-> 0]
    /\ calls = [t \in Tasks |-> IdleCall]
    /\ network = 0
    /\ derived = 0
    /\ sessions = 0
    /\ issued = 0
    /\ authvars = None
    /\ wire = NoWire
    /\ constructed = NotConstructed
    /\ wrapper = NoWrapper

WrapNext ==
    \/ \E t \in DOMAIN calls, w \in WrapperMethods, rnd \in CallDraws :
          \E a \in ArgumentsOf(w[2]) : UseWrapper(t, w[1], w[2], a, rnd)
    \/ \E t \in DOMAIN calls, status \in Statuses, body \in Bodies : Respond(t, status, body)
    \/ \E t \in DOMAIN calls : NetworkError(t)
    \/ Tick

WrapSpec == WrapInit /\ [][WrapNext]_vars

---------------------------------------------------------------------------
(* Vocabulary of the properties.                                           *)

\* the call of task t has dispatched its request and waits for the answer
Dispatched(t) == calls[t].pc = "awaiting"

\* the call of task t has completed on an answer of the remote service
Responded(t) == calls[t].pc = "done" /\ "response" \in DOMAIN calls[t]

Is2xx(status) == 200 <= status /\ status < 300

HasReplyCode(body) == "replyCode" \in DOMAIN body

\* the outcome is an ApiCallError whose argument is the decoded body or holds it
RaisesApiCallErrorWith(outcome, body) ==
    /\ outcome.kind = "ApiCallError"
    /\ \/ outcome.value = body
       \/ /\ "emarsys_response" \in DOMAIN outcome.value
          /\ outcome.value.emarsys_response = body

\* the caller's header mapping as a dict
CallerDict(headers) == IF Falsy(headers) THEN EmptyDict ELSE headers

\* the X-WSSE value the authenticator derives from the draw and the clock
\* reading of the call of task t
DerivedHeader(t) ==
    http_header(transport.username,
                AuthTable[transport.secret, calls[t].rnd, calls[t].now])

---------------------------------------------------------------------------
(* C1..C10                                                                 *)

\* C1: a call whose method is not one of GET, POST, PUT, DELETE fails with the
\* configuration error (ValueError) and issues no network request, on every
\* call path (the calls looked at are those without query parameters, which
\* every make_call accepts).
C1_InvalidMethodRejected ==
    \A t \in DOMAIN calls :
        ( /\ calls[t].pc # "idle"
          /\ calls[t].method \notin VALID_HTTP_METHODS
          /\ calls[t].params = None )
        => /\ calls[t].pc = "done"
           /\ calls[t].outcome.kind = "ValueError"
           /\ calls[t].requests = 0

\* C2: on the blocking call paths an answer with a 2xx status and a replyCode
\* other than 0 ends the call in ApiCallError carrying the decoded body.
C2_BlockingReplyCodeRaises ==
    \A t \in DOMAIN calls :
        ( /\ Responded(t)
          /\ ~IsAsync(transport.kind)
          /\ Is2xx(calls[t].response.status)
          /\ HasReplyCode(calls[t].response.body)
          /\ calls[t].response.body.replyCode # 0 )
        => RaisesApiCallErrorWith(calls[t].outcome, calls[t].response.body)

\* C3: on every call path an answer with status 200 and replyCode 0 completes
\* the call successfully, and the value returned is exactly the decoded body.
C3_SuccessDeliversBody ==
    \A t \in DOMAIN calls :
        ( /\ Responded(t)
          /\ calls[t].response.status = 200
          /\ HasReplyCode(calls[t].response.body)
          /\ calls[t].response.body.replyCode = 0 )
        => calls[t].outcome = Return(calls[t].response.body)

C3_Witness ==
    \E t \in DOMAIN calls :
        /\ Responded(t)
        /\ IsAsync(transport.kind)
        /\ calls[t].response = [status |-> 200, body |-> OK_BODY]
        /\ calls[t].outcome.kind = "return"

\* C4: on the concurrent call paths an answer with a non-2xx status ends the
\* call in ApiCallError carrying the decoded body, whatever its replyCode.
C4_ConcurrentNon2xxRaises ==
    \A t \in DOMAIN calls :
        ( /\ Responded(t)
          /\ IsAsync(transport.kind)
          /\ ~Is2xx(calls[t].response.status)
          /\ HasReplyCode(calls[t].response.body) )
        => RaisesApiCallErrorWith(calls[t].outcome, calls[t].response.body)

\* C5: SyncConnection.make_call and AsyncConnection.make_call reach the same
\* outcome for every answer: the outcome of a completed call on one of them is
\* the outcome the other one's classification gives for the same answer.
C5_Interchangeable ==
    \A t \in DOMAIN calls :
        ( /\ Responded(t)
          /\ transport.kind \in {"SyncConnection", "AsyncConnection"}
          /\ HasReplyCode(calls[t].response.body) )
        => calls[t].outcome =
               IF transport.kind = "SyncConnection"
               THEN Async_classify(None, calls[t].response)
               ELSE SyncConnection_classify(None, calls[t].response)

\* C6 as stated: for every caller-supplied header mapping, the dispatched
\* request carries an X-WSSE header whose value is the one the authenticator
\* derived during that call.
C6_AuthHeaderAlwaysDerived ==
    \A t \in DOMAIN calls :
        Dispatched(t)
        => /\ "X-WSSE" \in DOMAIN calls[t].request.headers
           /\ calls[t].request.headers["X-WSSE"] = DerivedHeader(t)

\* C6 as amended: for every caller-supplied header mapping without an X-WSSE
\* key, the dispatched request carries an X-WSSE header whose value is the one
\* the authenticator derived during that call, from that call's own draw and
\* clock reading; and there are as many derivations as dispatched requests.
C6_AuthHeaderDerivedUnlessSupplied ==
    /\ derived = network
    /\ \A t \in DOMAIN calls :
        (Dispatched(t) /\ "X-WSSE" \notin DOMAIN CallerDict(calls[t].headers))
        => /\ "X-WSSE" \in DOMAIN calls[t].request.headers
           /\ calls[t].request.headers["X-WSSE"] = DerivedHeader(t)
           /\ calls[t].serial = derived

C6_Witness ==
    \E t \in DOMAIN calls :
        /\ Dispatched(t)
        /\ network = 2
        /\ clock.ticks > 0
        /\ calls[t].now = clock.now
        /\ "Content-Type" \in DOMAIN CallerDict(calls[t].headers)
        /\ calls[t].request.headers["X-WSSE"] = DerivedHeader(t)

\* C7: the headers of a dispatched request are the authentication header and
\* Content-Type: application/json overlaid with the caller's headers, the
\* caller's value winning on every key both have; without a caller-supplied
\* Content-Type the request declares application/json, on every call path.
C7_HeadersMerged ==
    \A t \in DOMAIN calls :
        Dispatched(t)
        => /\ calls[t].request.headers =
                  DictMerge([k \in {"X-WSSE", "Content-Type"} |->
                                IF k = "X-WSSE" THEN DerivedHeader(t)
                                ELSE APPLICATION_JSON],
                            CallerDict(calls[t].headers))
           /\ "Content-Type" \notin DOMAIN CallerDict(calls[t].headers)
              => calls[t].request.headers["Content-Type"] = APPLICATION_JSON

C7_Witness ==
    \E t \in DOMAIN calls :
        /\ Dispatched(t)
        /\ transport.kind = "SyncConnection"
        /\ "Content-Type" \in DOMAIN CallerDict(calls[t].headers)
        /\ calls[t].request.headers["Content-Type"] = TEXT_XML
        /\ calls[t].request.headers["X-WSSE"] = DerivedHeader(t)

\* YYYY-MM-DDTHH:MM:SS+00:00
TimestampForm(s) ==
    /\ Len(s) = 25
    /\ IsDec(SubSeq(s, 1, 4)) /\ s[5] = "-"
    /\ IsDec(SubSeq(s, 6, 7)) /\ s[8] = "-"
    /\ IsDec(SubSeq(s, 9, 10)) /\ s[11] = "T"
    /\ IsDec(SubSeq(s, 12, 13)) /\ s[14] = ":"
    /\ IsDec(SubSeq(s, 15, 16)) /\ s[17] = ":"
    /\ IsDec(SubSeq(s, 18, 19))
    /\ SubSeq(s, 20, 25) = <<"+", "0", "0", ":", "0", "0">>

\* C8: every derivation returns a nonce of 32 hexadecimal characters, a
\* timestamp of 25 characters of the form YYYY-MM-DDTHH:MM:SS+00:00 and a
\* digest of 56 base64 characters, for every secret.
C8_AuthVariableShapes ==
    authvars # None
    => /\ Len(authvars.nonce) = 32
       /\ IsHex(authvars.nonce)
       /\ TimestampForm(authvars.created)
       /\ Len(authvars.password_digest) = 56
       /\ IsBase64(authvars.password_digest)

C8_Witness ==
    /\ authvars # None
    /\ transport.secret = <<>>
    /\ derived = 2
    /\ clock.now = Instant(2016, 1, 2, 3, 4, 6)
    /\ Len(authvars.password_digest) = 56

\* 'https://api.emarsys.net/api/v2/contact/'
CONTACT_URL ==
    <<"h", "t", "t", "p", "s", ":", "/", "/", "a", "p", "i", ".", "e", "m", "a", "r", "s",
      "y", "s", ".", "n", "e", "t", "/", "a", "p", "i", "/", "v", "2", "/", "c", "o", "n",
      "t", "a", "c", "t", "/">>

\* the URL without its query string
WithoutQuery(url) ==
    LET marks == Positions(url, "?")
    IN  IF marks = {} THEN url
        ELSE SubSeq(url, 1, (CHOOSE i \in marks : \A j \in marks : i <= j) - 1)

\* C10: a request with path 'api/v2/contact/' on a transport whose base URI is
\* 'https://api.emarsys.net/' is dispatched to exactly
\* 'https://api.emarsys.net/api/v2/contact/' (followed by the query string
\* where the call has query parameters).
C10_ContactUrl ==
    \A t \in DOMAIN calls :
        ( /\ Dispatched(t)
          /\ transport.uri = EMARSYS_URI
          /\ calls[t].endpoint = CONTACT_ENDPOINT )
        => /\ WithoutQuery(calls[t].request.url) = CONTACT_URL
           /\ calls[t].params = None => calls[t].request.url = CONTACT_URL

C10_Witness ==
    \E t \in DOMAIN calls :
        /\ Dispatched(t)
        /\ transport.kind = "AsyncConnection"
        /\ transport.uri = EMARSYS_URI
        /\ calls[t].endpoint = CONTACT_ENDPOINT
        /\ calls[t].method = "POST"
        /\ calls[t].request.url = CONTACT_URL

---------------------------------------------------------------------------
(* C11..C20                                                                *)

StartsWith(s, prefix) ==
    Len(prefix) <= Len(s) /\ SubSeq(s, 1, Len(prefix)) = prefix

\* scheme and host of an absolute URL: what precedes the third slash
SchemeAndHost(url) ==
    LET slashes == Positions(url, "/")
        third == { i \in slashes : Cardinality({ j \in slashes : j < i }) = 2 }
    IN  IF third = {} THEN url ELSE SubSeq(url, 1, (CHOOSE i \in third : TRUE) - 1)

\* C11: for every path, with or without a leading slash, the URL of the
\* dispatched request starts with the scheme and host of the configured base
\* URI.
C11_UrlKeepsBase ==
    \A t \in DOMAIN calls :
        Dispatched(t)
        => /\ StartsWith(calls[t].request.url, SchemeAndHost(transport.uri))
           /\ SchemeAndHost(calls[t].request.url) = SchemeAndHost(transport.uri)

\* 'return=3&limit=2'
QUERY_STRING ==
    <<"r", "e", "t", "u", "r", "n", "=", "3", "&", "l", "i", "m", "i", "t", "=", "2">>

\* C12: a call with a valid method that is given query parameters is accepted
\* and dispatches one request, whose URL is the resolved URL followed by "?"
\* and exactly those parameters, on every call path.
C12_ParamsDispatched ==
    \A t \in DOMAIN calls :
        ( /\ calls[t].pc # "idle"
          /\ calls[t].params # None
          /\ calls[t].method \in VALID_HTTP_METHODS )
        => /\ calls[t].requests = 1
           /\ Dispatched(t)
              => calls[t].request.url =
                     os_path_join(transport.uri, calls[t].endpoint) \o <<"?">> \o QUERY_STRING

\* '{}'
EMPTY_JSON == <<"{", "}">>

\* '{"3": "a@example.com"}'
PAYLOAD_JSON ==
    <<"{", "\"", "3", "\"", ":", " ", "\"">> \o EMAIL \o <<"\"", "}">>

\* C13: a call made without a body dispatches the empty JSON object {} as the
\* body of its request, on the blocking and on the concurrent call paths alike;
\* a call made with a non-empty body dispatches that body.
C13_BodyDispatched ==
    \A t \in DOMAIN calls :
        Dispatched(t)
        => calls[t].request.body =
               IF calls[t].payload = None THEN EMPTY_JSON ELSE PAYLOAD_JSON

C13_Witness ==
    /\ transport.kind \in {"SyncConnection", "AsyncConnection"}
    /\ \E t \in DOMAIN calls :
        /\ Dispatched(t)
        /\ calls[t].payload = None
        /\ calls[t].request.body = EMPTY_JSON
        /\ network = 2

\* the outcome of a call that failed on the network or on the service's answer
IsFailure(outcome) == outcome.kind \in {"ApiCallError", "ConnectionError", "KeyError"}

\* C14: a call that passes the method check issues exactly one network request
\* and yields exactly one outcome: a network request is issued by the start of
\* a call and by nothing else, a call in flight has issued one request and its
\* next step is its outcome, and a call that has its outcome, a failure
\* included, issues no further request and keeps that outcome until the caller
\* takes it.
C14_OneRequestOneOutcome ==
    [][ /\ network' \in {network, network + 1}
        /\ network' = network + 1
           <=> \E t \in DOMAIN calls : calls[t].pc = "idle" /\ calls'[t].pc = "awaiting"
        /\ \A t \in DOMAIN calls :
            /\ (calls[t].pc = "idle" /\ calls'[t].pc = "awaiting")
               => calls'[t].requests = 1
            /\ calls[t].pc = "awaiting"
               => \/ calls'[t] = calls[t]
                  \/ /\ calls'[t].pc = "done"
                     /\ calls'[t].requests = 1
                     /\ network' = network
            /\ calls[t].pc = "done"
               => \/ calls'[t] = calls[t]
                  \/ calls'[t] = IdleCall /\ network' = network
      ]_vars

C14_Witness ==
    \E t \in DOMAIN calls :
        /\ calls[t].pc = "done"
        /\ calls[t].outcome.kind = "ConnectionError"
        /\ calls[t].requests = 1
        /\ network = 2
        /\ issued = 2

\* C15: in every interleaving of two concurrent make_call invocations with
\* distinct bodies on one async transport, the response an invocation completes
\* with is the one the remote service produced for that invocation's own
\* request: it names the contact of the invocation's own body, never the other
\* invocation's.
C15_OwnResponse ==
    \A t \in DOMAIN calls :
        Responded(t)
        => /\ calls[t].response.body.data.contact = json_dumps(calls[t].payload)
           /\ \A u \in DOMAIN calls \ {t} :
                calls[t].response.body.data.contact # json_dumps(PayloadOf(u))

C15_Witness ==
    /\ transport.kind = "AsyncConnection"
    /\ Responded("t1")
    /\ Responded("t2")
    /\ calls["t1"].response.body.replyCode # calls["t2"].response.body.replyCode
    /\ calls["t1"].response.body.data.contact = json_dumps(PayloadOf("t1"))
    /\ calls["t2"].response.body.data.contact = json_dumps(PayloadOf("t2"))

\* C16: in every interleaving of concurrent make_call invocations on one async
\* transport, the step in which one invocation fails leaves every other
\* invocation in flight as it was, with its connection and the answer on it,
\* and an invocation that completes on an answer completes with the
\* classification of the answer that was on its own connection.
C16_FailureIsolated ==
    [][ \A t \in DOMAIN calls :
          calls[t].pc = "awaiting"
          => /\ ( \E u \in DOMAIN calls \ {t} :
                    /\ calls[u].pc = "awaiting"
                    /\ calls'[u].pc = "done"
                    /\ IsFailure(calls'[u].outcome) )
                => /\ calls'[t] = calls[t]
                   /\ calls[t].serial \in DOMAIN wire'
                   /\ wire'[calls[t].serial] = wire[calls[t].serial]
             /\ (calls'[t].pc = "done" /\ "response" \in DOMAIN calls'[t])
                => /\ calls'[t].response = wire[calls[t].serial].response
                   /\ calls'[t].outcome = Async_classify(calls[t].request, calls'[t].response)
      ]_vars

\* the call of t1, started while the call of t2 was in flight, has failed, and
\* the call of t2 is still in flight with the answer to its request waiting
C16_Witness ==
    /\ calls["t1"].pc = "done"
    /\ calls["t1"].outcome.kind = "ConnectionError"
    /\ calls["t2"].pc = "awaiting"
    /\ calls["t2"].serial = 1
    /\ derived = 2
    /\ wire[1].response # None
    /\ wire[1].response.body.data.contact = json_dumps(PayloadOf("t2"))
    /\ sessions = 1

\* C17: when the decoded body of the answer has no replyCode, the call ends in
\* a transport-level error: not in a returned body, not in ApiCallError and not
\* in a lookup failure (KeyError), on every call path.
C17_MissingReplyCodeIsTransportError ==
    \A t \in DOMAIN calls :
        (Responded(t) /\ ~HasReplyCode(calls[t].response.body))
        => calls[t].outcome.kind \notin {"return", "ApiCallError", "KeyError"}

\* the other call path of the same client or connection family
Counterpart(kind) ==
    CASE kind = "Emarsys" -> "EmarsysAsync"
      [] kind = "EmarsysAsync" -> "Emarsys"
      [] kind = "SyncConnection" -> "AsyncConnection"
      [] kind = "AsyncConnection" -> "SyncConnection"
      [] OTHER -> kind

\* C18: an ApiCallError carries the decoded body of the answer that caused it,
\* and when the blocking and the concurrent call path of one client (Emarsys
\* with is_async False and True; SyncConnection and AsyncConnection) both raise
\* ApiCallError for an answer, they raise it with the same argument.
C18_SameErrorShape ==
    \A t \in DOMAIN calls :
        (Responded(t) /\ calls[t].outcome.kind = "ApiCallError")
        => /\ RaisesApiCallErrorWith(calls[t].outcome, calls[t].response.body)
           /\ Counterpart(transport.kind) # transport.kind
              => LET other == Classify(Counterpart(transport.kind), None, calls[t].response)
                 IN  other.kind = "ApiCallError" => other.value = calls[t].outcome.value

\* C19: constructing a Contact, ContactField or ContactList with a
\* SyncConnection succeeds, constructing one with 123 raises TypeError, and
\* neither issues a network request.
C19_EndpointConstruction ==
    ( /\ constructed.pc = "endpoint"
      /\ constructed.cls \in {"Contact", "ContactField", "ContactList"} )
    => /\ constructed.argument = "SyncConnection" => constructed.outcome.kind = "return"
       /\ constructed.argument = "int" => constructed.outcome.kind = "TypeError"
       /\ network = 0

\* the settings call of the constructor was answered with status 200 and the body
\* with replyCode 0
SettingsAnswered ==
    /\ "response" \in DOMAIN constructed.call
    /\ constructed.call.response = [status |-> 200, body |-> OK_BODY]

\* C20: when the remote service answers the settings call of a client's
\* constructor with status 200 and replyCode 0, the constructor completes
\* without an exception, username, secret and uri are the constructor's
\* arguments and settings is the decoded answer.
C20_ClientConstructed ==
    ( /\ constructed.pc = "client"
      /\ SettingsAnswered )
    => /\ constructed.outcome.kind = "return"
       /\ transport.username = TEST_USERNAME
       /\ transport.secret = TEST_SECRET
       /\ transport.uri \in Uris
       /\ "settings" \in DOMAIN transport
       /\ transport.settings = OK_BODY

(***************************************************************************)
(* Claims C21..C30                                                         *)
(***************************************************************************)

\* the attributes BaseConnection.__init__ gives a transport instance
CONSTRUCTION_ATTRIBUTES == {"kind", "username", "secret", "uri"}

\* C21: no step of a make_call, whether the call ends in a return or in an
\* exception, changes the username, the secret or the uri of the transport
\* instance, and the instance never gains an attribute beyond those of its
\* construction: it holds nothing of a request that has completed.
C21_TransportUntouched ==
    [][ /\ transport'.username = transport.username
        /\ transport'.secret = transport.secret
        /\ transport'.uri = transport.uri
        /\ DOMAIN transport' = CONSTRUCTION_ATTRIBUTES ]_vars

\* a second call has ended in an ApiCallError on a blocking connection after
\* a first call was made and collected, and the instance is as constructed
C21_Witness ==
    /\ transport.kind = "SyncConnection"
    /\ issued = 2
    /\ network = 2
    /\ \E t \in DOMAIN calls :
          /\ Responded(t)
          /\ calls[t].outcome.kind = "ApiCallError"
    /\ DOMAIN transport = CONSTRUCTION_ATTRIBUTES
    /\ transport.username = TEST_USERNAME
    /\ transport.secret = TEST_SECRET

\* the text of the X-WSSE value for an identity and three authentication
\* values: UsernameToken Username="..",PasswordDigest="..",Nonce="..",Created=".."
WsseText(identity, digest, nonce, created) ==
    <<"U", "s", "e", "r", "n", "a", "m", "e", "T", "o", "k", "e", "n", " ",
      "U", "s", "e", "r", "n", "a", "m", "e", "=", "\"">> \o identity
    \o <<"\"", ",", "P", "a", "s", "s", "w", "o", "r", "d", "D", "i", "g", "e", "s", "t",
         "=", "\"">> \o digest
    \o <<"\"", ",", "N", "o", "n", "c", "e", "=", "\"">> \o nonce
    \o <<"\"", ",", "C", "r", "e", "a", "t", "e", "d", "=", "\"">> \o created
    \o <<"\"">>

\* the X-WSSE value of the request of task t has the text form above, with
\* the username of construction and the authentication values of the call,
\* and exactly four comma-separated fields
HasWsseText(t) ==
    LET auth == AuthTable[transport.secret, calls[t].rnd, calls[t].now]
        value == calls[t].request.headers["X-WSSE"]
    IN  /\ value = WsseText(TEST_USERNAME, auth.password_digest, auth.nonce, auth.created)
        /\ Cardinality(Positions(value, ",")) = 3
        /\ Cardinality(Positions(value, "\"")) = 8

\* C22 as stated: the X-WSSE value of every dispatched request is exactly
\* UsernameToken Username="<identity>",PasswordDigest="<digest>",
\* Nonce="<nonce>",Created="<timestamp>", the identity being the username
\* given at construction.
C22_HeaderTextAlways ==
    \A t \in DOMAIN calls :
        Dispatched(t)
        => /\ "X-WSSE" \in DOMAIN calls[t].request.headers
           /\ HasWsseText(t)

\* C22 as amended: the X-WSSE value of every dispatched request whose caller
\* supplied no X-WSSE header of their own is exactly the text above, with the
\* four fields Username, PasswordDigest, Nonce and Created in that order and
\* the username given at construction as the identity.
C22_HeaderTextUnlessSupplied ==
    \A t \in DOMAIN calls :
        (Dispatched(t) /\ "X-WSSE" \notin DOMAIN CallerDict(calls[t].headers))
        => /\ "X-WSSE" \in DOMAIN calls[t].request.headers
           /\ HasWsseText(t)

\* a request was dispatched with the derived header after the clock moved,
\* the caller having supplied other headers only
C22_Witness ==
    \E t \in DOMAIN calls :
        /\ Dispatched(t)
        /\ clock.ticks > 0
        /\ calls[t].now = clock.now
        /\ calls[t].headers # None
        /\ "X-WSSE" \notin DOMAIN CallerDict(calls[t].headers)
        /\ HasWsseText(t)
        /\ Len(calls[t].request.headers["X-WSSE"]) > 100

\* C23: the handle a call on the concurrent transport (AsyncConnection) gives
\* its caller resolves, once the remote service has answered and the answer
\* was received, to one outcome, and that outcome is the one the blocking
\* transport (SyncConnection) yields for the same answer.
C23_HandleResolvesAsBlocking ==
    \A t \in DOMAIN calls :
        (transport.kind = "AsyncConnection" /\ Responded(t))
        => /\ "outcome" \in DOMAIN calls[t]
           /\ calls[t].outcome = SyncConnection_classify(None, calls[t].response)

\* the caller's program with the wrapper has ended: in an exception before
\* make_call, or with the outcome of make_call
WrapperEnded ==
    \/ wrapper.pc = "raised"
    \/ wrapper.pc = "called" /\ \E t \in DOMAIN calls : calls[t].pc = "done"

\* what the wrapper returned or raised
WrapperOutcome ==
    IF wrapper.pc = "raised" THEN wrapper.outcome
    ELSE (CHOOSE c \in { calls[t] : t \in DOMAIN calls } : c.pc = "done").outcome

\* C24: a call of a resource wrapper method of Contact, ContactField or
\* ContactList on an endpoint object made from a connection issues exactly
\* one make_call on that connection, derives no authentication header beyond
\* the one of that make_call, and ends with what make_call returned.
C24_WrapperDelegates ==
    (WrapperEnded /\ wrapper.cls \in ConnectionClasses
        /\ wrapper.method \in {"create", "delete", "list", "list_choice"})
    => /\ wrapper.pc = "called"
       /\ issued = 1
       /\ derived <= 1
       /\ \A t \in DOMAIN calls : calls[t].pc = "done" => WrapperOutcome = calls[t].outcome

\* C25: Contact.query with a query_tuple of more than two elements raises
\* ValueError without a transport call, and with a query_tuple of two
\* elements (field_id, value) the params of its make_call hold the entry
\* field_id -> value.
C25_QueryTupleChecked ==
    ( /\ WrapperEnded
      /\ wrapper.method = "query"
      /\ wrapper.given.query_tuple # None )
    => IF Len(wrapper.given.query_tuple.value) > 2
       THEN /\ WrapperOutcome.kind = "ValueError"
            /\ issued = 0
            /\ network = 0
       ELSE /\ wrapper.pc = "called"
            /\ \A t \in DOMAIN calls :
                  calls[t].pc = "done"
                  => /\ wrapper.given.query_tuple.value[1].key \in DOMAIN calls[t].params
                     /\ calls[t].params[wrapper.given.query_tuple.value[1].key]
                            = wrapper.given.query_tuple.value[2].text

\* C26: the params of the make_call of Contact.query hold 'offset' exactly
\* when the caller supplied an offset and 'excludeempty' exactly when the
\* caller supplied exclude_empty, whether or not a limit was supplied; with a
\* limit and a field filter only, they are return, limit and the filter field.
C26_QueryParams ==
    (WrapperEnded /\ wrapper.method = "query"
        /\ ( wrapper.given.query_tuple = None
             \/ Len(wrapper.given.query_tuple.value) <= 2 ))
    => /\ wrapper.pc = "called"
       /\ \A t \in DOMAIN calls :
             calls[t].pc = "done"
             => LET params == calls[t].params
                    given == wrapper.given
                IN  /\ ("offset" \in DOMAIN params) = (given.offset # None)
                    /\ ("excludeempty" \in DOMAIN params) = (given.exclude_empty # None)
                    /\ ("limit" \in DOMAIN params) = (given.limit # None)
                    /\ ( /\ given.limit # None
                         /\ given.query_tuple # None
                         /\ given.offset = None
                         /\ given.exclude_empty = None )
                       => DOMAIN params = {"return", "limit", "1"}

\* C28: the contact-writing wrappers (create, update and delete of
\* pymarsys.contact.Contact; create_contact of pymarsys.sync Contact;
\* create_contact and delete_contact of SyncEmarsys) leave the mapping the
\* caller passed as it was, with or without key_id and source_id.
C28_ContactMappingKept ==
    ( /\ wrapper.pc # "none"
      /\ wrapper.method \in {"create", "update", "delete", "create_contact",
                             "delete_contact"} )
    => wrapper.contact = wrapper.given.contact

\* the n-th smallest element of a set of numbers
Nth(S, n) == CHOOSE x \in S : Cardinality({ y \in S : y < x }) = n - 1

\* the i-th quoted field of an X-WSSE value: the text between its (2i-1)-th
\* and its 2i-th double quote
HeaderField(value, i) ==
    LET quotes == Positions(value, "\"")
    IN  SubSeq(value, Nth(quotes, (2 * i) - 1) + 1, Nth(quotes, 2 * i) - 1)

\* the digest that belongs to a nonce, a timestamp and a secret
DigestOf(nonce, created, secret) ==
    b64encode(str_encode(sha1_hexdigest(str_encode(nonce \o created \o secret))))

\* the nonces and the timestamps a header of the model can carry
Nonces == { uuid4_hex(rnd) : rnd \in RandomBytes }

Timestamps == { strftime(now) : now \in Instants }

\* DigestOf tabulated, so that each digest is computed once
DigestTable ==
    [nonce \in Nonces, created \in Timestamps, secret \in AuthSecrets |->
        DigestOf(nonce, created, secret)]

\* the PasswordDigest field of an X-WSSE value is the digest of the Nonce and
\* Created fields of that same value and the secret
SelfConsistent(value, secret) ==
    /\ Cardinality(Positions(value, "\"")) = 8
    /\ HeaderField(value, 3) \in Nonces
    /\ HeaderField(value, 4) \in Timestamps
    /\ HeaderField(value, 2)
           = DigestTable[HeaderField(value, 3), HeaderField(value, 4), secret]

\* C27: in the authentication header the transport builds for a request, the
\* digest is the one computed from the nonce and the timestamp of that same
\* header and the secret of the instance, for every request in flight, also
\* while another call of the same instance is in flight.
C27_DigestMatchesHeader ==
    \A t \in DOMAIN calls :
        (Dispatched(t) /\ "X-WSSE" \notin DOMAIN CallerDict(calls[t].headers))
        => /\ SelfConsistent(calls[t].request.headers["X-WSSE"], transport.secret)
           /\ wire[calls[t].serial].request.headers["X-WSSE"]
                  = calls[t].request.headers["X-WSSE"]

\* two calls of one instance are in flight at once, with headers built from
\* different draws at different clock readings, each consistent in itself
C27_Witness ==
    /\ \A t \in DOMAIN calls : Dispatched(t)
    /\ Cardinality(DOMAIN calls) = 2
    /\ \E t, u \in DOMAIN calls :
          /\ calls[t].rnd # calls[u].rnd
          /\ calls[t].now # calls[u].now
          /\ HeaderField(calls[t].request.headers["X-WSSE"], 3)
                 # HeaderField(calls[u].request.headers["X-WSSE"], 3)
          /\ SelfConsistent(calls[t].request.headers["X-WSSE"], transport.secret)
          /\ SelfConsistent(calls[u].request.headers["X-WSSE"], transport.secret)

\* the calls of the transport that are in flight
InFlight == { t \in DOMAIN calls : calls[t].pc = "awaiting" }

\* C29: on the concurrent transport the number of open client sessions is at
\* every moment the number of calls in flight: a session opened by a
\* make_call is closed when that call completes, by a return, by an
\* ApiCallError or by an exception of the library, and no session is open
\* once every call has completed.
C29_SessionsFollowCalls ==
    /\ sessions = Cardinality(InFlight)
    /\ sessions = Cardinality(DOMAIN wire)
    /\ InFlight = {} => sessions = 0

\* one call has ended in an ApiCallError and the other has returned, after
\* both were in flight, and no session is open
C29_Witness ==
    /\ sessions = 0
    /\ network = 2
    /\ \E t, u \in DOMAIN calls :
          /\ Responded(t)
          /\ calls[t].outcome.kind = "ApiCallError"
          /\ Responded(u)
          /\ calls[u].outcome.kind = "return"

\* C30: the constructor of an Emarsys or SyncEmarsys client issues exactly
\* one network request, GET api/v2/settings, before it ends; when that
\* request ends in ApiCallError the constructor raises that very error, and
\* the object has neither settings nor contacts.
C30_SettingsCallInConstructor ==
    /\ transport.kind \in ClientKinds
       => /\ network <= 1
          /\ \A t \in DOMAIN calls :
                Dispatched(t)
                => /\ calls[t].method = "GET"
                   /\ calls[t].endpoint = SETTINGS_ENDPOINT
                   /\ calls[t].request.method = "GET"
                   /\ constructed = NotConstructed
    /\ constructed.pc = "client"
       => /\ network = 1
          /\ issued = 1
          /\ constructed.call.requests = 1
          /\ constructed.call.outcome.kind = "ApiCallError"
             => /\ constructed.outcome = constructed.call.outcome
                /\ "settings" \notin DOMAIN transport
                /\ "contacts" \notin DOMAIN transport

\* the constructor of a SyncEmarsys client has ended in the ApiCallError of
\* its settings call, which was answered with status 404
C30_Witness ==
    /\ transport.kind = "SyncEmarsys"
    /\ constructed.pc = "client"
    /\ network = 1
    /\ "response" \in DOMAIN constructed.call
    /\ constructed.call.response.status = 404
    /\ constructed.outcome.kind = "ApiCallError"
    /\ "settings" \notin DOMAIN transport

===========================================================================
